---- MODULE Spec2Model ----
(***************************************************************************)
(* Model of the scope-ai-language runtime library:                         *)
(*   - the Ollama query client (scope_language: _OllamaBase, OllamaLLM,    *)
(*     OllamaVLM): should_send / query_async / _query / get_last_response, *)
(*   - the debounced port update of UDPSender and UDPReceiver (scope_bus), *)
(*   - the prompt debounce _settle_prompt of the VLM pipelines.            *)
(*   - PromptInjector.inject_if_new (scope_bus),                           *)
(*   - UDPSender.send and UDPReceiver.poll with their JSON encoding,       *)
(*   - the __call__ of LLMOllamaPipeline and of the three VLM pipelines.   *)
(* Time is time.monotonic() in whole seconds.                              *)
(***************************************************************************)
EXTENDS Integers, Sequences, FiniteSets, TLC

VARIABLES
    now,            \* the reading of time.monotonic()
    op,             \* the last call or background step: [name, n, s, ret]
    host,           \* the pipeline class that owns the components below
    \* ---- query client (the host's OllamaLLM or OllamaVLM instance)
    pending,        \* self._pending
    lastSendTime,   \* self._last_send_time
    lastResponse,   \* self._last_response
    callback,       \* self._callback ("none" is None)
    queries,        \* one record per query_async call: its background thread
    respFrom,       \* index of the query whose response lastResponse holds (0: none)
    \* ---- debounce gates
    sender,         \* UDPSender: [port, pending_port, port_changed_at, closed]
    receiver,       \* UDPReceiver: [port, pending_port, port_changed_at, sock]
    settle,         \* VLM pipeline: [active, pending, changed_at, last_queried, last_sent]
    senderIn,       \* the proposals seen by sender.update_port
    receiverIn,     \* the proposals seen by receiver.update_port
    settleIn,       \* the proposals seen by _settle_prompt
    \* ---- prompt injector
    lastInjected,   \* PromptInjector._last_injected
    output,         \* the output dict as the last inject_if_new call left it
    inj,            \* the last inject_if_new call: its arguments and the ledger before
    injPrev,        \* the call before it: [text, before, mutated]
    injected,       \* the texts injected so far, in order
    \* ---- multicast channel
    net,            \* the datagrams queued on the receiver's socket
    drained,        \* the datagrams the last poll took from the socket
    polled,         \* what the last poll returned
    shown           \* VLMOllamaPostPipeline: [prompt, response] (_last_prompt, _last_response)

clientVars == <<pending, lastSendTime, lastResponse, callback, queries, respFrom>>
gateVars == <<sender, receiver, settle, senderIn, receiverIn, settleIn>>
injectVars == <<lastInjected, output, inj, injPrev, injected>>
chanVars == <<net, drained, polled, shown>>
vars == <<now, op, host, clientVars, gateVars, injectVars, chanVars>>

\* ---------------------------------------------------------------- bounds
MaxTime == 3
MaxGateTime == 6
MaxQueries == 2
MaxCalls == 4
MaxQueue == 2
MaxRebindTime == 3

\* ------------------------------------------------------------- constants
REBIND_DELAY == 3
NoPort == 0
DefaultPort == 9400
Ports == {9400, 9401}
Prompts == {"A", "B"}
DefaultPrompt == "A"
SettleTimes == {0, 2}
Intervals == {1, 2}
Responses == {"", "r1", "r2"}
\* The response texts where only the order of the steps is looked at.
AsyncResponses == {"", "r1"}
Callbacks == {"none", "cb"}

\* LLMOllamaPipeline owns an OllamaLLM and a UDPSender; VLMOllamaPipeline an
\* OllamaVLM and the prompt debounce; VLMOllamaPrePipeline an OllamaVLM, a
\* UDPSender and the prompt debounce; VLMOllamaPostPipeline a UDPReceiver.
Hosts == {"llm", "vlm", "vlm-pre", "vlm-post"}
LLMHosts == {"llm"}
VLMHosts == {"vlm", "vlm-pre"}
SenderHosts == {"llm", "vlm-pre", "channel"}
ReceiverHosts == {"vlm-post", "channel"}
SettleHosts == {"vlm", "vlm-pre"}
\* The PromptInjector of a pipeline taken alone: OSCPromptPipeline hands it a dict
\* with the upstream keys, LLMOllamaPipeline a response text that may be empty.
InjectorHosts == {"injector"}
\* A sending pipeline and a receiving pipeline on the multicast group (the VLM
\* preprocessor and postprocessor, or the LLM pipeline and UDPPromptPipeline).
ChannelHosts == {"channel"}

Op(name, n, s) == [name |-> name, n |-> n, s |-> s, ret |-> FALSE]

\* ================================================================ client

\* Mutant of ShouldSend: a client that has never fired may send at once.
MShouldSendFirstAtOnce(interval) ==
    IF pending THEN FALSE ELSE (queries = <<>> \/ (now - lastSendTime) >= interval)

\* Mutant of ShouldSend: the time since the last query is not looked at.
MShouldSendWhenFree(interval) == ~pending

\* Mutant of ShouldSend: the interval must be exceeded, not reached.
MShouldSendStrict(interval) ==
    IF pending THEN FALSE ELSE (now - lastSendTime) > interval

\* _OllamaBase.should_send / OllamaVLM.should_send
ShouldSend(interval) ==
    IF pending THEN FALSE ELSE (now - lastSendTime) >= interval

\* _OllamaBase.get_last_response / OllamaVLM.get_last_response
GetLastResponse == lastResponse

\* _OllamaBase.is_pending
IsPending == pending

\* The background threads that were started and have not finished.
Outstanding == {q \in 1..Len(queries) : queries[q].pc \in {"post", "callback", "finally"}}

\* The fire time and the response before the fire are kept for the latest query
\* only, and the outcome of a query until the next one is fired after it ended.
Scrub(qs) ==
    [q \in 1..Len(qs) |->
        IF qs[q].pc \in {"done", "unstarted"}
        THEN [pc |-> qs[q].pc, firedAt |-> 0, prior |-> "", outcome |-> "none", result |-> "",
              notified |-> FALSE, prompt |-> ""]
        ELSE [qs[q] EXCEPT !.firedAt = 0, !.prior = ""]]

\* result is the local variable of _query; notified: this thread called the
\* callback; prompt is the argument of the thread (the VLM pipelines' prompt, ""
\* where the text of the prompt is not followed).
NewQuery(pc) ==
    [pc |-> pc, firedAt |-> now, prior |-> lastResponse, outcome |-> "none", result |-> "",
     notified |-> FALSE, prompt |-> ""]

\* A caller asks should_send(interval).
ShouldSendCall(interval) ==
    /\ op' = [Op("should_send", interval, "") EXCEPT !.ret = ShouldSend(interval)]
    /\ UNCHANGED <<now, host, pending, lastSendTime, lastResponse, callback, queries, respFrom, gateVars, injectVars, chanVars>>

\* The state change of query_async(..., prompt, callback) up to the start of
\* the thread, which gets the prompt as its argument.
FirePrompt(cb, pc, prompt) ==
    /\ lastSendTime' = now
    /\ pending' = TRUE
    /\ callback' = cb
    /\ queries' = Append(Scrub(queries), [NewQuery(pc) EXCEPT !.prompt = prompt])

\* query_async where the text of the prompt is not followed.
Fire(cb, pc) == FirePrompt(cb, pc, "")

\* OllamaLLM.query_async: no condition on _pending.
LLMQueryAsync(cb) ==
    /\ host \in LLMHosts
    /\ Len(queries) < MaxQueries
    /\ Fire(cb, "post")
    /\ op' = Op("query_async", 0, cb)
    /\ UNCHANGED <<now, host, lastResponse, respFrom, gateVars, injectVars, chanVars>>

\* OllamaVLM.query_async: the fields are set, then the frame is converted
\* (tensor_to_pil), then the thread is started; a frame the conversion rejects
\* raises to the caller after the fields were set and no thread is started.
VLMQueryAsync(cb, frameOk) ==
    /\ host \in VLMHosts
    /\ Len(queries) < MaxQueries
    /\ Fire(cb, IF frameOk THEN "post" ELSE "unstarted")
    /\ op' = Op(IF frameOk THEN "query_async" ELSE "query_async_raised", 0, cb)
    /\ UNCHANGED <<now, host, lastResponse, respFrom, gateVars, injectVars, chanVars>>

\* Mutant of HttpOk: the pending flag is cleared with the store of the result,
\* before the callback is called.
MHttpOkClearsPending(q, text) ==
    /\ q \in 1..Len(queries)
    /\ queries[q].pc = "post"
    /\ lastResponse' = text
    /\ respFrom' = q
    /\ pending' = FALSE
    /\ queries' = [queries EXCEPT ![q].pc = "callback", ![q].outcome = "ok", ![q].result = text]
    /\ op' = Op("http_ok", 0, "")
    /\ UNCHANGED <<now, host, lastSendTime, callback, gateVars, injectVars, chanVars>>

\* _query: the POST returned a 2xx status with a JSON body; the stripped text of
\* its "response" field ("" when the field is missing) is stored under the lock.
HttpOk(q, text) ==
    /\ q \in 1..Len(queries)
    /\ queries[q].pc = "post"
    /\ lastResponse' = text
    /\ respFrom' = q
    /\ queries' = [queries EXCEPT ![q].pc = "callback", ![q].outcome = "ok", ![q].result = text]
    /\ op' = Op("http_ok", 0, "")
    /\ UNCHANGED <<now, host, pending, lastSendTime, callback, gateVars, injectVars, chanVars>>

\* Mutant of HttpFail: the failure stores an error text as the response.
MHttpFailStoresError(q) ==
    /\ q \in 1..Len(queries)
    /\ queries[q].pc = "post"
    /\ lastResponse' = "error"
    /\ queries' = [queries EXCEPT ![q].pc = "finally", ![q].outcome = "fail"]
    /\ op' = Op("http_fail", 0, "")
    /\ UNCHANGED <<now, host, pending, lastSendTime, callback, respFrom, gateVars, injectVars, chanVars>>

\* Mutant of HttpFail: the failure clears the stored response.
MHttpFailClearsResponse(q) ==
    /\ q \in 1..Len(queries)
    /\ queries[q].pc = "post"
    /\ lastResponse' = ""
    /\ queries' = [queries EXCEPT ![q].pc = "finally", ![q].outcome = "fail"]
    /\ op' = Op("http_fail", 0, "")
    /\ UNCHANGED <<now, host, pending, lastSendTime, callback, respFrom, gateVars, injectVars, chanVars>>

\* Mutant of HttpFail: the failure is reported to the callback as well (the
\* callback call sits in the finally path), with an empty text.
MHttpFailThenCallback(q) ==
    /\ q \in 1..Len(queries)
    /\ queries[q].pc = "post"
    /\ queries' = [queries EXCEPT ![q].pc = "callback", ![q].outcome = "fail"]
    /\ op' = Op("http_fail", 0, "")
    /\ UNCHANGED <<now, host, pending, lastSendTime, lastResponse, callback, respFrom, gateVars, injectVars, chanVars>>

\* _query: the POST raised, the status was not 2xx or the body was not JSON:
\* the except clause logs, nothing is stored, the callback is not called.
HttpFail(q) ==
    /\ q \in 1..Len(queries)
    /\ queries[q].pc = "post"
    /\ queries' = [queries EXCEPT ![q].pc = "finally", ![q].outcome = "fail"]
    /\ op' = Op("http_fail", 0, "")
    /\ UNCHANGED <<now, host, pending, lastSendTime, lastResponse, callback, respFrom, gateVars, injectVars, chanVars>>

\* _query: `if self._callback: self._callback(result)`, reading the field as it
\* is now and passing the thread's own result; whether the callback returns or
\* raises, the finally clause is next, where result is not read any more.
\* op.s is the text the callback is given.
Callback(q) ==
    /\ q \in 1..Len(queries)
    /\ queries[q].pc = "callback"
    /\ queries' = [queries EXCEPT ![q].pc = "finally", ![q].result = "",
                                  ![q].notified = (callback # "none")]
    /\ op' = IF callback # "none" THEN Op("callback", 0, queries[q].result)
                                  ELSE Op("no_callback", 0, "")
    /\ UNCHANGED <<now, host, pending, lastSendTime, lastResponse, callback, respFrom, gateVars, injectVars, chanVars>>

\* Mutant of Finally: the end of the thread stamps the send time again.
MFinallyRestamps(q) ==
    /\ q \in 1..Len(queries)
    /\ queries[q].pc = "finally"
    /\ pending' = FALSE
    /\ lastSendTime' = now
    /\ queries' = [queries EXCEPT ![q].pc = "done"]
    /\ op' = Op("finally", 0, "")
    /\ UNCHANGED <<now, host, lastResponse, callback, respFrom, gateVars, injectVars, chanVars>>

\* Mutant of Finally: the flag is cleared at the end of the try block only, so
\* not after a failure.
MFinallyOnlyOnSuccess(q) ==
    /\ q \in 1..Len(queries)
    /\ queries[q].pc = "finally"
    /\ pending' = IF queries[q].outcome = "ok" THEN FALSE ELSE pending
    /\ queries' = [queries EXCEPT ![q].pc = "done"]
    /\ op' = Op("finally", 0, "")
    /\ UNCHANGED <<now, host, lastSendTime, lastResponse, callback, respFrom, gateVars, injectVars, chanVars>>

\* _query: finally: self._pending = False; the thread ends.
Finally(q) ==
    /\ q \in 1..Len(queries)
    /\ queries[q].pc = "finally"
    /\ pending' = FALSE
    /\ queries' = [queries EXCEPT ![q].pc = "done"]
    /\ op' = Op("finally", 0, "")
    /\ UNCHANGED <<now, host, lastSendTime, lastResponse, callback, respFrom, gateVars, injectVars, chanVars>>

\* LLMOllamaPipeline.__call__, "Send to LLM if interval has elapsed": the query
\* is fired only when should_send(kwargs send_interval) is true; the callback is
\* _on_llm_response when kwargs udp_enabled, else None.
LLMPipelineFire(interval, udp_enabled) ==
    /\ host \in LLMHosts
    /\ Len(queries) < MaxQueries
    /\ IF ShouldSend(interval)
       THEN /\ Fire(IF udp_enabled THEN "cb" ELSE "none", "post")
            /\ op' = Op("query_async", interval, "")
       ELSE /\ UNCHANGED <<pending, lastSendTime, callback, queries>>
            /\ op' = Op("no_query", interval, "")
    /\ UNCHANGED <<now, host, lastResponse, respFrom, gateVars, injectVars, chanVars>>

\* VLMOllamaPipeline.__call__ and VLMOllamaPrePipeline.__call__, "Fire immediately
\* when prompt changed (as soon as VLM is free), else use interval": needs_send is
\* the comparison of the active prompt with the last queried one; the callback is
\* _on_vlm_response in the preprocessor and None in the standalone pipeline.
VLMPipelineFire(interval, needs_send, frameOk) ==
    /\ host \in VLMHosts
    /\ Len(queries) < MaxQueries
    /\ IF ~IsPending /\ (needs_send \/ ShouldSend(interval))
       THEN /\ Fire(IF host = "vlm-pre" THEN "cb" ELSE "none",
                    IF frameOk THEN "post" ELSE "unstarted")
            /\ op' = Op(IF frameOk THEN "query_async" ELSE "query_async_raised", interval, "")
       ELSE /\ UNCHANGED <<pending, lastSendTime, callback, queries>>
            /\ op' = Op("no_query", interval, "")
    /\ UNCHANGED <<now, host, lastResponse, respFrom, gateVars, injectVars, chanVars>>

\* One access of a client field by a call or a thread step: the field, read or
\* write, and whether the statement sits inside `with self._lock`.
Access(field, mode, locked) == [field |-> field, mode |-> mode, locked |-> locked]

\* The accesses of _pending, _last_send_time and _last_response that the step
\* named `name` makes: should_send and is_pending read outside the lock,
\* query_async and the finally clause write outside the lock, and only
\* _last_response is read (get_last_response) and written (_query) under it.
Accesses(name) ==
    CASE name = "should_send" ->
            {Access("pending", "read", FALSE), Access("last_send_time", "read", FALSE)}
      [] name = "is_pending" -> {Access("pending", "read", FALSE)}
      [] name = "get_last_response" -> {Access("last_response", "read", TRUE)}
      [] name \in {"query_async", "query_async_raised"} ->
            {Access("last_send_time", "write", FALSE), Access("pending", "write", FALSE)}
      [] name = "http_ok" -> {Access("last_response", "write", TRUE)}
      [] name = "finally" -> {Access("pending", "write", FALSE)}
      [] OTHER -> {}

\* time.monotonic() advances.
Tick(bound) ==
    /\ now < bound
    /\ now' = now + 1
    /\ op' = Op("tick", 0, "")
    /\ UNCHANGED <<host, clientVars, gateVars, injectVars, chanVars>>

\* ================================================================= gates

\* What a gate's caller has proposed so far: the value of the last call, the time
\* of the first call of the current run of calls with that value, whether the last
\* call repeated the call before it, whether some call so far repeated a value
\* other than `initial` that was first proposed at least `delay` earlier, and
\* whether and when a value other than `initial` was first proposed.
Observe(in, value, delay, initial) ==
    LET seen == [in EXCEPT !.asked = in.asked \/ value # initial,
                           !.first = IF ~in.asked /\ value # initial THEN now ELSE in.first]
    IN IF value = in.value
       THEN [seen EXCEPT !.repeated = TRUE,
                         !.settled = in.settled \/ (value # initial /\ (now - in.since) >= delay)]
       ELSE [seen EXCEPT !.value = value, !.since = now, !.repeated = FALSE]

\* Mutant of SenderUpdatePort: a commit replaces the socket by a new one.
MSenderUpdatePortNewSocket(s, new_port) ==
    IF new_port = s.port
    THEN [s EXCEPT !.pending_port = NoPort]
    ELSE IF new_port # s.pending_port
    THEN [s EXCEPT !.pending_port = new_port, !.port_changed_at = now]
    ELSE IF (now - s.port_changed_at) >= REBIND_DELAY
    THEN [s EXCEPT !.port = new_port, !.pending_port = NoPort, !.closed = FALSE]
    ELSE s

\* Mutant of SenderUpdatePort: the settle delay must be exceeded, not reached.
MSenderUpdatePortStrict(s, new_port) ==
    IF new_port = s.port
    THEN [s EXCEPT !.pending_port = NoPort]
    ELSE IF new_port # s.pending_port
    THEN [s EXCEPT !.pending_port = new_port, !.port_changed_at = now]
    ELSE IF (now - s.port_changed_at) > REBIND_DELAY
    THEN [s EXCEPT !.port = new_port, !.pending_port = NoPort]
    ELSE s

\* UDPSender.update_port
SenderUpdatePort(s, new_port) ==
    IF new_port = s.port
    THEN [s EXCEPT !.pending_port = NoPort]
    ELSE IF new_port # s.pending_port
    THEN [s EXCEPT !.pending_port = new_port, !.port_changed_at = now]
    ELSE IF (now - s.port_changed_at) >= REBIND_DELAY
    THEN [s EXCEPT !.port = new_port, !.pending_port = NoPort]
    ELSE s

\* Mutant of ReceiverUpdatePort: proposing the committed port keeps the pending
\* proposal and its timer.
MReceiverUpdatePortKeepsPending(r, new_port, bindOk) ==
    IF new_port = r.port
    THEN r
    ELSE IF new_port # r.pending_port
    THEN [r EXCEPT !.pending_port = new_port, !.port_changed_at = now]
    ELSE IF (now - r.port_changed_at) >= REBIND_DELAY
    THEN IF bindOk
         THEN [r EXCEPT !.port = new_port, !.sock = new_port, !.pending_port = NoPort]
         ELSE [r EXCEPT !.port = new_port, !.sock = NoPort]
    ELSE r

\* UDPReceiver.update_port: on commit the socket is closed, _port is set and
\* _bind(new_port) runs; when the bind raises, the exception leaves update_port
\* with the closed socket kept and _pending_port not cleared.
ReceiverUpdatePort(r, new_port, bindOk) ==
    IF new_port = r.port
    THEN [r EXCEPT !.pending_port = NoPort]
    ELSE IF new_port # r.pending_port
    THEN [r EXCEPT !.pending_port = new_port, !.port_changed_at = now]
    ELSE IF (now - r.port_changed_at) >= REBIND_DELAY
    THEN IF bindOk
         THEN [r EXCEPT !.port = new_port, !.sock = new_port, !.pending_port = NoPort]
         ELSE [r EXCEPT !.port = new_port, !.sock = NoPort]
    ELSE r

\* _settle_prompt: returns (active_prompt, pending_prompt, changed_at)
SettlePrompt(new_prompt, pend, active, changed_at, settle_time) ==
    IF new_prompt # pend
    THEN <<active, new_prompt, now>>
    ELSE IF settle_time = 0 \/ (now - changed_at) >= settle_time
    THEN <<pend, pend, changed_at>>
    ELSE <<active, pend, changed_at>>

\* A pipeline call reaches self._udp.update_port(kwargs udp_port) on its sender.
SenderUpdate(p) ==
    /\ host \in SenderHosts
    /\ sender' = SenderUpdatePort(sender, p)
    /\ senderIn' = Observe(senderIn, p, REBIND_DELAY, DefaultPort)
    /\ op' = Op("sender.update_port", p, "")
    /\ UNCHANGED <<now, host, clientVars, injectVars, chanVars, receiver, settle, receiverIn, settleIn>>

\* Mutant of SocketQueue: the socket is kept over the rebind (no close, no new
\* socket), and with it the datagrams queued on it.
MSocketQueueKept(r, r2, queue) == queue

\* The datagrams queued on the receiver's socket after update_port took the
\* receiver from r to r2: closing the socket drops what was queued on it, and
\* the socket _bind creates starts empty.
SocketQueue(r, r2, queue) == IF r2.sock # r.sock THEN <<>> ELSE queue

\* UDPReceiver.update_port reaches its commit branch (close, _port, _bind).
ReceiverCommits(r, new_port) ==
    /\ new_port # r.port
    /\ new_port = r.pending_port
    /\ (now - r.port_changed_at) >= REBIND_DELAY

\* How a UDPReceiver.update_port call ends: _bind is called outside any try, so
\* what socket(), bind() or setsockopt() raise leaves update_port as an OSError.
ReceiverUpdateEnds(r, new_port, bindOk) ==
    IF ReceiverCommits(r, new_port) /\ ~bindOk THEN "raised" ELSE "returned"

\* The postprocessor's call reaches self._udp.update_port(kwargs udp_port), which
\* it calls outside any try.  op.s is how update_port ended.
ReceiverUpdate(p, bindOk) ==
    /\ host \in ReceiverHosts
    /\ receiver' = ReceiverUpdatePort(receiver, p, bindOk)
    /\ receiverIn' = Observe(receiverIn, p, REBIND_DELAY, DefaultPort)
    /\ net' = SocketQueue(receiver, receiver', net)
    /\ op' = Op("receiver.update_port", p, ReceiverUpdateEnds(receiver, p, bindOk))
    /\ UNCHANGED <<now, host, clientVars, injectVars, drained, polled, shown, sender, settle,
                   senderIn, settleIn>>

\* A VLM pipeline call debounces kwargs vlm_prompt with kwargs prompt_settle_time.
SettlePromptCall(p, settle_time) ==
    /\ host \in SettleHosts
    /\ LET r == SettlePrompt(p, settle.pending, settle.active, settle.changed_at, settle_time)
       IN settle' = [settle EXCEPT !.active = r[1], !.pending = r[2], !.changed_at = r[3]]
    /\ settleIn' = Observe(settleIn, p, settle_time, DefaultPrompt)
    /\ op' = Op("settle_prompt", settle_time, p)
    /\ UNCHANGED <<now, host, clientVars, injectVars, chanVars, sender, receiver, senderIn, receiverIn>>

\* ======================================================= prompt injector

Texts == {"", "A", "B"}
Weights == {100, 50}
TransitionSteps == {0, 2}
Methods == {"slerp", "linear"}

\* What an upstream stage has put on the output dict before inject_if_new runs
\* (OSCPromptPipeline forwards every kwarg that is not its own).
UpstreamPrompt == [text |-> "up", weight |-> 1]
UpstreamTransition ==
    [target_prompts |-> <<UpstreamPrompt>>, num_steps |-> 4,
     temporal_interpolation_method |-> "linear"]
Bags ==
    { [video |-> "frames"],
      [video |-> "frames", prompts |-> <<>>],
      [video |-> "frames", prompts |-> <<UpstreamPrompt, [text |-> "A", weight |-> 100]>>],
      [video |-> "frames", transition |-> UpstreamTransition],
      [video |-> "frames", prompts |-> <<UpstreamPrompt>>, transition |-> UpstreamTransition] }

\* dict.get(key, default) and dict[key] = value
Get(bag, key, default) == IF key \in DOMAIN bag THEN bag[key] ELSE default
Put(bag, key, value) == [k \in DOMAIN bag \cup {key} |-> IF k = key THEN value ELSE bag[k]]

\* Mutant of InjectIfNew: the text is not compared with the last injected text.
MInjectIfNewNoDedup(out, last, text, weight, transition_steps, interpolation_method) ==
    IF text = ""
    THEN [output |-> out, last_injected |-> last]
    ELSE LET prompt_entry == [text |-> text, weight |-> weight]
         IN IF transition_steps > 0
            THEN [output |-> Put(out, "transition",
                                 [target_prompts |-> <<prompt_entry>>,
                                  num_steps |-> transition_steps,
                                  temporal_interpolation_method |-> interpolation_method]),
                  last_injected |-> text]
            ELSE [output |-> Put(out, "prompts", Append(Get(out, "prompts", <<>>), prompt_entry)),
                  last_injected |-> text]

\* Mutant of InjectIfNew: _last_injected is assigned before the early return, so
\* an empty text resets the ledger.
MInjectIfNewEmptyResetsLedger(out, last, text, weight, transition_steps, interpolation_method) ==
    IF text = "" \/ text = last
    THEN [output |-> out, last_injected |-> text]
    ELSE LET prompt_entry == [text |-> text, weight |-> weight]
         IN IF transition_steps > 0
            THEN [output |-> Put(out, "transition",
                                 [target_prompts |-> <<prompt_entry>>,
                                  num_steps |-> transition_steps,
                                  temporal_interpolation_method |-> interpolation_method]),
                  last_injected |-> text]
            ELSE [output |-> Put(out, "prompts", Append(Get(out, "prompts", <<>>), prompt_entry)),
                  last_injected |-> text]

\* Mutant of InjectIfNew: _last_injected is assigned in the append branch only.
MInjectIfNewLedgerOnAppendOnly(out, last, text, weight, transition_steps, interpolation_method) ==
    IF text = "" \/ text = last
    THEN [output |-> out, last_injected |-> last]
    ELSE LET prompt_entry == [text |-> text, weight |-> weight]
         IN IF transition_steps > 0
            THEN [output |-> Put(out, "transition",
                                 [target_prompts |-> <<prompt_entry>>,
                                  num_steps |-> transition_steps,
                                  temporal_interpolation_method |-> interpolation_method]),
                  last_injected |-> last]
            ELSE [output |-> Put(out, "prompts", Append(Get(out, "prompts", <<>>), prompt_entry)),
                  last_injected |-> text]

\* Mutant of InjectIfNew: the prompt entry is appended in the transition branch too.
MInjectIfNewTransitionAlsoAppends(out, last, text, weight, transition_steps, interpolation_method) ==
    IF text = "" \/ text = last
    THEN [output |-> out, last_injected |-> last]
    ELSE LET prompt_entry == [text |-> text, weight |-> weight]
             appended == Put(out, "prompts", Append(Get(out, "prompts", <<>>), prompt_entry))
         IN IF transition_steps > 0
            THEN [output |-> Put(appended, "transition",
                                 [target_prompts |-> <<prompt_entry>>,
                                  num_steps |-> transition_steps,
                                  temporal_interpolation_method |-> interpolation_method]),
                  last_injected |-> text]
            ELSE [output |-> appended, last_injected |-> text]

\* Mutant of InjectIfNew: output["prompts"] is assigned the new entry alone.
MInjectIfNewOverwritesPrompts(out, last, text, weight, transition_steps, interpolation_method) ==
    IF text = "" \/ text = last
    THEN [output |-> out, last_injected |-> last]
    ELSE LET prompt_entry == [text |-> text, weight |-> weight]
         IN IF transition_steps > 0
            THEN [output |-> Put(out, "transition",
                                 [target_prompts |-> <<prompt_entry>>,
                                  num_steps |-> transition_steps,
                                  temporal_interpolation_method |-> interpolation_method]),
                  last_injected |-> text]
            ELSE [output |-> Put(out, "prompts", <<prompt_entry>>),
                  last_injected |-> text]

\* Mutant of InjectIfNew: the ledger is looked at for the default weight only.
MInjectIfNewDedupDefaultWeight(out, last, text, weight, transition_steps, interpolation_method) ==
    IF text = "" \/ (text = last /\ weight = 100)
    THEN [output |-> out, last_injected |-> last]
    ELSE LET prompt_entry == [text |-> text, weight |-> weight]
         IN IF transition_steps > 0
            THEN [output |-> Put(out, "transition",
                                 [target_prompts |-> <<prompt_entry>>,
                                  num_steps |-> transition_steps,
                                  temporal_interpolation_method |-> interpolation_method]),
                  last_injected |-> text]
            ELSE [output |-> Put(out, "prompts", Append(Get(out, "prompts", <<>>), prompt_entry)),
                  last_injected |-> text]

\* PromptInjector.inject_if_new: the output dict and _last_injected after the call.
InjectIfNew(out, last, text, weight, transition_steps, interpolation_method) ==
    IF text = "" \/ text = last
    THEN [output |-> out, last_injected |-> last]
    ELSE LET prompt_entry == [text |-> text, weight |-> weight]
         IN IF transition_steps > 0
            THEN [output |-> Put(out, "transition",
                                 [target_prompts |-> <<prompt_entry>>,
                                  num_steps |-> transition_steps,
                                  temporal_interpolation_method |-> interpolation_method]),
                  last_injected |-> text]
            ELSE [output |-> Put(out, "prompts", Append(Get(out, "prompts", <<>>), prompt_entry)),
                  last_injected |-> text]

\* A pipeline call hands its output dict and a text to self._prompt.inject_if_new.
InjectCall(bag, text, weight, transition_steps, interpolation_method) ==
    /\ host \in InjectorHosts
    /\ inj.call < MaxCalls
    /\ LET r == InjectIfNew(bag, lastInjected, text, weight, transition_steps,
                            interpolation_method)
       IN /\ output' = r.output
          /\ lastInjected' = r.last_injected
          /\ injected' = IF r.output # bag THEN Append(injected, text) ELSE injected
    /\ inj' = [call |-> inj.call + 1, text |-> text, weight |-> weight,
               steps |-> transition_steps, method |-> interpolation_method,
               bag |-> bag, before |-> lastInjected]
    /\ injPrev' = [text |-> inj.text, before |-> inj.before, mutated |-> (output # inj.bag)]
    /\ op' = Op("inject_if_new", transition_steps, text)
    /\ UNCHANGED <<now, host, clientVars, gateVars, chanVars>>

\* ====================================================== multicast channel

\* Python values: str, int, dict (its items in insertion order, keys str), None.
Str(s) == [t |-> "str", v |-> s]
Num(n) == [t |-> "num", v |-> n]
Dict(items) == [t |-> "dict", v |-> items]
\* None: poll found no datagram, or the last datagram was the JSON text null.
NoMessage == [t |-> "none", v |-> ""]

Digits == "0123456789"
Char(s, i) == SubSeq(s, i, i)
Rest(s, i) == SubSeq(s, i, Len(s))
IsDigit(c) == \E d \in 1..10 : Char(Digits, d) = c
DigitVal(c) == (CHOOSE d \in 1..10 : Char(Digits, d) = c) - 1

\* ---- json.dumps: strings are quoted with " and \ escaped, items are joined
\* by ", " and a key is joined to its value by ": ".
RECURSIVE Escape(_)
Escape(s) ==
    IF s = "" THEN ""
    ELSE LET c == Char(s, 1)
         IN (IF c = "\"" \/ c = "\\" THEN "\\" \o c ELSE c) \o Escape(Rest(s, 2))

Quote(s) == "\"" \o Escape(s) \o "\""

RECURSIVE IntToStr(_)
IntToStr(n) ==
    IF n < 0 THEN "-" \o IntToStr(0 - n)
    ELSE IF n < 10 THEN Char(Digits, n + 1)
    ELSE IntToStr(n \div 10) \o Char(Digits, (n % 10) + 1)

RECURSIVE Dumps(_)
RECURSIVE DumpsItems(_)
DumpsItems(items) ==
    IF items = <<>> THEN ""
    ELSE Quote(items[1][1]) \o ": " \o Dumps(items[1][2])
         \o (IF Len(items) > 1 THEN ", " ELSE "") \o DumpsItems(Tail(items))

Dumps(val) ==
    IF val.t = "str" THEN Quote(val.v)
    ELSE IF val.t = "num" THEN IntToStr(val.v)
    ELSE IF val.t = "none" THEN "null"
    ELSE "{" \o DumpsItems(val.v) \o "}"

\* ---- json.loads, for texts made of strings, integers, objects and null: a parse
\* step returns whether it succeeded, the value and the text left over.
Fail == [ok |-> FALSE, val |-> Str(""), rest |-> ""]
Ok(val, rest) == [ok |-> TRUE, val |-> val, rest |-> rest]

RECURSIVE SkipWs(_)
SkipWs(s) == IF s # "" /\ Char(s, 1) = " " THEN SkipWs(Rest(s, 2)) ELSE s

\* The text after an opening quote, up to the closing quote.
RECURSIVE ScanString(_, _)
ScanString(s, acc) ==
    IF s = "" THEN Fail
    ELSE LET c == Char(s, 1)
         IN IF c = "\"" THEN Ok(Str(acc), Rest(s, 2))
            ELSE IF c = "\\"
            THEN IF Len(s) >= 2 /\ Char(s, 2) \in {"\"", "\\"}
                 THEN ScanString(Rest(s, 3), acc \o Char(s, 2))
                 ELSE Fail
            ELSE ScanString(Rest(s, 2), acc \o c)

RECURSIVE ScanDigits(_, _)
ScanDigits(s, n) ==
    IF s # "" /\ IsDigit(Char(s, 1))
    THEN ScanDigits(Rest(s, 2), 10 * n + DigitVal(Char(s, 1)))
    ELSE [n |-> n, rest |-> s]

ParseNumber(s) ==
    LET neg == Char(s, 1) = "-"
        body == IF neg THEN Rest(s, 2) ELSE s
    IN IF body = "" \/ ~IsDigit(Char(body, 1)) THEN Fail
       ELSE IF Char(body, 1) = "0" /\ Len(body) >= 2 /\ IsDigit(Char(body, 2)) THEN Fail
       ELSE LET r == ScanDigits(body, 0)
            IN Ok(Num(IF neg THEN 0 - r.n ELSE r.n), r.rest)

\* dict[key] = value while the object is built: a repeated key keeps its place.
SetItem(items, key, val) ==
    IF \E i \in 1..Len(items) : items[i][1] = key
    THEN [i \in 1..Len(items) |-> IF items[i][1] = key THEN <<key, val>> ELSE items[i]]
    ELSE Append(items, <<key, val>>)

RECURSIVE ParseValue(_)
RECURSIVE ParseItems(_, _)
ParseItems(s, items) ==
    IF s = "" \/ Char(s, 1) # "\"" THEN Fail
    ELSE LET k == ScanString(Rest(s, 2), "")
             a == SkipWs(k.rest)
         IN IF ~k.ok \/ a = "" \/ Char(a, 1) # ":" THEN Fail
            ELSE LET v == ParseValue(SkipWs(Rest(a, 2)))
                     b == SkipWs(v.rest)
                 IN IF ~v.ok \/ b = "" THEN Fail
                    ELSE IF Char(b, 1) = "}"
                    THEN Ok(Dict(SetItem(items, k.val.v, v.val)), Rest(b, 2))
                    ELSE IF Char(b, 1) = ","
                    THEN ParseItems(SkipWs(Rest(b, 2)), SetItem(items, k.val.v, v.val))
                    ELSE Fail

ParseValue(s) ==
    IF s = "" THEN Fail
    ELSE LET c == Char(s, 1)
         IN IF c = "\"" THEN ScanString(Rest(s, 2), "")
            ELSE IF c = "{"
            THEN LET t == SkipWs(Rest(s, 2))
                 IN IF t # "" /\ Char(t, 1) = "}" THEN Ok(Dict(<<>>), Rest(t, 2))
                    ELSE ParseItems(t, <<>>)
            ELSE IF c = "-" \/ IsDigit(c) THEN ParseNumber(s)
            ELSE IF Len(s) >= 4 /\ SubSeq(s, 1, 4) = "null" THEN Ok(NoMessage, Rest(s, 5))
            ELSE Fail

\* json.loads(text): not ok stands for JSONDecodeError.
Loads(text) ==
    LET r == ParseValue(SkipWs(text))
    IN IF r.ok /\ SkipWs(r.rest) = "" THEN r ELSE Fail

\* ---- the messages sent in the model
VLMMessage == Dict(<< <<"prompt", Str("A")>>, <<"response", Str("a \"red\" door")>> >>)
Messages ==
    { Str("hello"), Str(""), Str("42"), Str("null"), Str("a \"red\" door"),
      Str("{\"prompt\": \"B\"}"), VLMMessage, Dict(<< <<"n", Num(7)>> >>) }
RebindMessages == { Str("hello") }

\* UDPSender.send: the payload of a message (json.dumps for a dict, str() for
\* anything else; UTF-8 encoding and decoding leave the text as it is).
Payload(message) == IF message.t = "dict" THEN Dumps(message) ELSE message.v

\* Mutant of Decode: the text is returned as received, without json.loads.
MDecodeRawOnly(text) == Str(text)

\* UDPReceiver.poll: try json.loads(text), except (JSONDecodeError, ValueError) text.
Decode(text) == LET r == Loads(text) IN IF r.ok THEN r.val ELSE Str(text)

\* Mutant of Drain: the first datagram found is kept, not the latest.
RECURSIVE MDrainKeepsFirst(_, _)
MDrainKeepsFirst(queue, latest) ==
    IF queue = <<>> THEN latest
    ELSE MDrainKeepsFirst(Tail(queue),
                          IF latest = NoMessage THEN Decode(Head(queue).payload) ELSE latest)

\* UDPReceiver.poll: the loop over recvfrom until BlockingIOError.
RECURSIVE Drain(_, _)
Drain(queue, latest) ==
    IF queue = <<>> THEN latest
    ELSE Drain(Tail(queue), Decode(Head(queue).payload))

\* UDPSender.send: sendto succeeds when the socket is open and the write works
\* (on a closed socket sendto raises OSError).
Sent(s, writeOk) == writeOk /\ ~s.closed

\* Mutant of SendEnds: the failure of sendto is not caught.
MSendEndsRaises(s, writeOk) == IF Sent(s, writeOk) THEN "sent" ELSE "raised"

\* UDPSender.send: how the call ends; what sendto raises is logged ("UDP send
\* failed") and send returns.
SendEnds(s, writeOk) == IF Sent(s, writeOk) THEN "sent" ELSE "logged"

\* Mutant of Send: the failure of sendto is not caught.
MSendRaises(message, writeOk) ==
    /\ host \in ChannelHosts
    /\ net' = IF Sent(sender, writeOk) /\ receiver.sock = sender.port /\ Len(net) < MaxQueue
              THEN Append(net, [payload |-> Payload(message), port |-> sender.port,
                                msg |-> message])
              ELSE net
    /\ op' = Op("send", sender.port, IF Sent(sender, writeOk) THEN "sent" ELSE "raised")
    /\ UNCHANGED <<now, host, clientVars, gateVars, injectVars, drained, polled, shown>>

\* UDPSender.send: sendto to the group on the sender's port; a datagram reaches
\* the receiver's socket when that is bound to the same port and has room (a full
\* receive buffer drops it); when sendto raises, the exception is logged and send
\* returns.  op.s is how send ended.
Send(message, writeOk) ==
    /\ host \in ChannelHosts
    /\ net' = IF Sent(sender, writeOk) /\ receiver.sock = sender.port /\ Len(net) < MaxQueue
              THEN Append(net, [payload |-> Payload(message), port |-> sender.port,
                                msg |-> message])
              ELSE net
    /\ op' = Op("send", sender.port, SendEnds(sender, writeOk))
    /\ UNCHANGED <<now, host, clientVars, gateVars, injectVars, drained, polled, shown>>

\* UDPReceiver.poll: on a closed socket (a rebind that failed) recvfrom raises
\* OSError, which poll does not catch; otherwise poll drains the socket and
\* returns the latest message or None.
Poll ==
    /\ host \in ChannelHosts
    /\ IF receiver.sock = NoPort
       THEN /\ op' = Op("poll", receiver.port, "raised")
            /\ UNCHANGED <<net, drained, polled>>
       ELSE /\ polled' = Drain(net, NoMessage)
            /\ drained' = net
            /\ net' = <<>>
            /\ op' = Op("poll", receiver.port, "returned")
    /\ UNCHANGED <<now, host, clientVars, gateVars, injectVars, shown>>

\* ======================================================== pipeline calls

\* kwargs["video"] of a call: missing (None), a list torch.stack rejects (empty),
\* or a list of frames.
Videos == {"none", "empty", "frames"}
CallMessages == { Str("hello"), VLMMessage }

\* A pipeline call and how it ended: "no_video" (the ValueError of the entry
\* test), "bad_video" (normalize_input raised), "update_port_raised",
\* "query_async_raised", "poll_raised" or "returned".
CallOp(name, n, s, video) == [name |-> name, n |-> n, s |-> s, ret |-> FALSE, video |-> video]

\* Mutant of RaisesAtEntry: no entry test, the call runs on to normalize_input.
MRaisesAtEntryNever(video) == FALSE

\* __call__: `if video is None: raise ValueError(...)`, its first statement.
RaisesAtEntry(video) == video = "none"

\* Mutant of LastQueried: the fire does not record the prompt it queried.
MLastQueriedNotRecorded(fire, active, last) == last

\* `self._last_queried_prompt = self._active_prompt`, first statement of the
\* fire branch.
LastQueried(fire, active, last) == IF fire THEN active ELSE last

\* The output dict a call builds ({"video": frames.clamp(0, 1)}) after
\* inject_if_new(output, response_text, weight=100.0, transition_steps=0,
\* interpolation_method="slerp") ran on it (kwargs inject_prompt and the three
\* others at their defaults).
CallInject ==
    LET r == InjectIfNew([video |-> "frames"], lastInjected, GetLastResponse, 100, 0, "slerp")
    IN /\ output' = r.output
       /\ lastInjected' = r.last_injected

\* LLMOllamaPipeline.__call__: entry test, normalize_input, update_port, the
\* query under should_send, inject_if_new with the stored response.
LLMCall(video, udp_port, interval, udp_enabled) ==
    /\ host \in LLMHosts
    /\ IF RaisesAtEntry(video) \/ video # "frames"
       THEN /\ op' = CallOp("llm.call", interval,
                            IF RaisesAtEntry(video) THEN "no_video" ELSE "bad_video", video)
            /\ UNCHANGED <<sender, pending, lastSendTime, callback, queries, lastInjected, output>>
       ELSE /\ sender' = SenderUpdatePort(sender, udp_port)
            /\ IF ShouldSend(interval)
               THEN /\ Len(queries) < MaxQueries
                    /\ Fire(IF udp_enabled THEN "cb" ELSE "none", "post")
               ELSE UNCHANGED <<pending, lastSendTime, callback, queries>>
            /\ CallInject
            /\ op' = CallOp("llm.call", interval, "returned", video)
    /\ UNCHANGED <<now, host, lastResponse, respFrom, receiver, settle, senderIn, receiverIn,
                   settleIn, inj, injPrev, injected, chanVars>>

\* VLMOllamaPipeline.__call__ and VLMOllamaPrePipeline.__call__: entry test,
\* (preprocessor: update_port,) normalize_input, _settle_prompt, the query when
\* the client is free and the prompt changed or the interval elapsed,
\* inject_if_new.  query_async raises when tensor_to_pil rejects the frame, after
\* it set its fields; the call then ends without an output dict.  The standalone
\* pipeline has no sender and reads no udp_port.
VLMCall(video, udp_port, vlm_prompt, settle_time, interval, frameOk) ==
    /\ host \in VLMHosts
    /\ host = "vlm" => udp_port = DefaultPort
    /\ IF RaisesAtEntry(video)
       THEN /\ op' = CallOp("vlm.call", interval, "no_video", video)
            /\ UNCHANGED <<sender, settle, pending, lastSendTime, callback, queries, lastInjected,
                           output>>
       ELSE /\ sender' = IF host = "vlm-pre" THEN SenderUpdatePort(sender, udp_port) ELSE sender
            /\ IF video # "frames"
               THEN /\ op' = CallOp("vlm.call", interval, "bad_video", video)
                    /\ UNCHANGED <<settle, pending, lastSendTime, callback, queries, lastInjected,
                                   output>>
               ELSE LET r == SettlePrompt(vlm_prompt, settle.pending, settle.active,
                                          settle.changed_at, settle_time)
                        prompt_needs_send == r[1] # settle.last_queried
                        fire == ~IsPending /\ (prompt_needs_send \/ ShouldSend(interval))
                    IN /\ settle' = [active |-> r[1], pending |-> r[2], changed_at |-> r[3],
                                     last_queried |-> LastQueried(fire, r[1], settle.last_queried),
                                     last_sent |-> IF fire /\ host = "vlm-pre" THEN r[1]
                                                   ELSE settle.last_sent]
                       /\ IF fire
                          THEN /\ Len(queries) < MaxQueries
                               /\ FirePrompt(IF host = "vlm-pre" THEN "cb" ELSE "none",
                                             IF frameOk THEN "post" ELSE "unstarted", r[1])
                          ELSE UNCHANGED <<pending, lastSendTime, callback, queries>>
                       /\ IF fire /\ ~frameOk
                          THEN /\ op' = CallOp("vlm.call", interval, "query_async_raised", video)
                               /\ UNCHANGED <<lastInjected, output>>
                          ELSE /\ op' = CallOp("vlm.call", interval, "returned", video)
                               /\ CallInject
    /\ UNCHANGED <<now, host, lastResponse, respFrom, receiver, senderIn, receiverIn, settleIn,
                   inj, injPrev, injected, chanVars>>

\* dict.get(key, default) on a decoded message.
RECURSIVE ItemsGet(_, _, _)
ItemsGet(items, key, default) ==
    IF items = <<>> THEN default
    ELSE IF Head(items)[1] = key THEN Head(items)[2]
    ELSE ItemsGet(Tail(items), key, default)

\* VLMOllamaPostPipeline.__call__: a dict message sets _last_prompt and
\* _last_response, a str message _last_response, anything else neither.
Show(sh, msg) ==
    IF msg.t = "dict"
    THEN [prompt |-> ItemsGet(msg.v, "prompt", Str("")),
          response |-> ItemsGet(msg.v, "response", Str(""))]
    ELSE IF msg.t = "str" THEN [sh EXCEPT !.response = msg]
    ELSE sh

\* VLMOllamaPostPipeline.__call__: entry test, update_port, normalize_input, poll.
PostCall(video, udp_port, bindOk) ==
    /\ host \in ReceiverHosts
    /\ IF RaisesAtEntry(video)
       THEN /\ op' = CallOp("post.call", udp_port, "no_video", video)
            /\ UNCHANGED <<receiver, net, drained, polled, shown>>
       ELSE LET r2 == ReceiverUpdatePort(receiver, udp_port, bindOk)
                queue == SocketQueue(receiver, r2, net)
                msg == Drain(queue, NoMessage)
                ends == IF ReceiverUpdateEnds(receiver, udp_port, bindOk) = "raised"
                        THEN "update_port_raised"
                        ELSE IF video # "frames" THEN "bad_video"
                        ELSE IF r2.sock = NoPort THEN "poll_raised"
                        ELSE "returned"
            IN /\ receiver' = r2
               /\ op' = CallOp("post.call", udp_port, ends, video)
               /\ IF ends = "returned"
                  THEN /\ net' = <<>>
                       /\ drained' = queue
                       /\ polled' = msg
                       /\ shown' = Show(shown, msg)
                  ELSE /\ net' = queue
                       /\ UNCHANGED <<drained, polled, shown>>
    /\ UNCHANGED <<now, host, clientVars, injectVars, sender, settle, senderIn, receiverIn,
                   settleIn>>

\* Mutant of ResponseMessage: the preprocessor pairs the response with the
\* prompt that is active when the callback runs.
MResponseMessageActivePrompt(text) ==
    IF host = "vlm-pre"
    THEN Dict(<< <<"prompt", Str(settle.active)>>, <<"response", Str(text)>> >>)
    ELSE Str(text)

\* The message the callback hands to self._udp.send: _on_vlm_response sends
\* {"prompt": self._last_sent_prompt, "response": text}, _on_llm_response the text.
ResponseMessage(text) ==
    IF host = "vlm-pre"
    THEN Dict(<< <<"prompt", Str(settle.last_sent)>>, <<"response", Str(text)>> >>)
    ELSE Str(text)

\* The callback's event: the port and the end of send, and the message sent.
ResponseOp(n, s, msg) == [name |-> "on_response", n |-> n, s |-> s, ret |-> FALSE, msg |-> msg]

\* _query reaches `if self._callback: self._callback(result)` in a pipeline: the
\* callback is _on_llm_response or _on_vlm_response, which hands the text to
\* self._udp.send and prints.  op.s is how send ended.
OnResponse(q, writeOk) ==
    /\ q \in 1..Len(queries)
    /\ queries[q].pc = "callback"
    /\ queries' = [queries EXCEPT ![q].pc = "finally", ![q].result = "",
                                  ![q].notified = (callback # "none")]
    /\ op' = IF callback # "none"
             THEN ResponseOp(sender.port, SendEnds(sender, writeOk),
                             ResponseMessage(queries[q].result))
             ELSE Op("no_callback", 0, "")
    /\ UNCHANGED <<now, host, pending, lastSendTime, lastResponse, callback, respFrom, gateVars,
                   injectVars, chanVars>>

\* UDPSender.close
SenderClose ==
    /\ host \in SenderHosts
    /\ sender' = [sender EXCEPT !.closed = TRUE]
    /\ op' = Op("sender.close", sender.port, "")
    /\ UNCHANGED <<now, host, clientVars, injectVars, chanVars, receiver, settle, senderIn,
                   receiverIn, settleIn>>

\* ======================================================= response body

\* str.strip(), for texts padded with spaces.
RECURSIVE StripRight(_)
StripRight(s) ==
    IF s # "" /\ Char(s, Len(s)) = " " THEN StripRight(SubSeq(s, 1, Len(s) - 1)) ELSE s
Strip(s) == StripRight(SkipWs(s))

\* The bodies of a 2xx answer to POST /api/generate.
Bodies ==
    { "not json", "{}", "{\"done\": 1}", "{\"response\": \"\"}", "{\"response\": \"r1\"}",
      "{\"response\": \" r1 \"}", "{\"response\": 7}", "null" }

\* _query: result = response.json().get("response", "").strip(); not ok stands
\* for an exception: JSONDecodeError from json(), AttributeError from .get on a
\* value that is no dict or from .strip on a value that is no str.
QueryResult(body) ==
    LET r == Loads(body)
        v == ItemsGet(r.val.v, "response", Str(""))
    IN IF ~r.ok \/ r.val.t # "dict" THEN [ok |-> FALSE, text |-> ""]
       ELSE IF v.t # "str" THEN [ok |-> FALSE, text |-> ""]
       ELSE [ok |-> TRUE, text |-> Strip(v.v)]

\* _query: the POST returned a 2xx status with this body.  When the result is
\* computed it is stored under the lock and the callback test is next; when
\* computing it raises, the except clause logs and the finally clause is next.
HttpBody(q, body) ==
    /\ q \in 1..Len(queries)
    /\ queries[q].pc = "post"
    /\ LET r == QueryResult(body)
       IN IF r.ok
          THEN /\ lastResponse' = r.text
               /\ respFrom' = q
               /\ queries' = [queries EXCEPT ![q].pc = "callback", ![q].outcome = "ok",
                                             ![q].result = r.text]
          ELSE /\ UNCHANGED <<lastResponse, respFrom>>
               /\ queries' = [queries EXCEPT ![q].pc = "finally", ![q].outcome = "fail"]
    /\ op' = Op("http_body", 0, body)
    /\ UNCHANGED <<now, host, pending, lastSendTime, callback, gateVars, injectVars, chanVars>>

\* Mutant of CallbackRaises: the callback is called outside the try statement,
\* so its exception ends the thread before the finally clause.
MCallbackRaisesEscapes(q) ==
    /\ q \in 1..Len(queries)
    /\ queries[q].pc = "callback"
    /\ callback # "none"
    /\ queries' = [queries EXCEPT ![q].pc = "done", ![q].result = "", ![q].notified = TRUE]
    /\ op' = Op("callback_raised", 0, queries[q].result)
    /\ UNCHANGED <<now, host, pending, lastSendTime, lastResponse, callback, respFrom, gateVars,
                   injectVars, chanVars>>

\* _query: self._callback(result) raises: the call sits inside the try, so
\* `except Exception` logs it and the finally clause is next.  op.s is the text
\* the callback was given.
CallbackRaises(q) ==
    /\ q \in 1..Len(queries)
    /\ queries[q].pc = "callback"
    /\ callback # "none"
    /\ queries' = [queries EXCEPT ![q].pc = "finally", ![q].result = "", ![q].notified = TRUE]
    /\ op' = Op("callback_raised", 0, queries[q].result)
    /\ UNCHANGED <<now, host, pending, lastSendTime, lastResponse, callback, respFrom, gateVars,
                   injectVars, chanVars>>

InitInjector ==
    /\ lastInjected = ""
    /\ output = [video |-> "frames"]
    /\ inj = [call |-> 0, text |-> "", weight |-> 100, steps |-> 0, method |-> "slerp",
              bag |-> [video |-> "frames"], before |-> ""]
    /\ injPrev = [text |-> "", before |-> "", mutated |-> FALSE]
    /\ injected = <<>>

InitChannel ==
    /\ net = <<>>
    /\ drained = <<>>
    /\ polled = NoMessage
    /\ shown = [prompt |-> Str(""), response |-> Str("")]

InitClient ==
    /\ pending = FALSE
    /\ lastSendTime = 0
    /\ lastResponse = ""
    /\ callback = "none"
    /\ queries = <<>>
    /\ respFrom = 0

InitGates ==
    /\ sender = [port |-> DefaultPort, pending_port |-> NoPort, port_changed_at |-> 0,
                 closed |-> FALSE]
    /\ receiver = [port |-> DefaultPort, pending_port |-> NoPort, port_changed_at |-> 0,
                   sock |-> DefaultPort]
    /\ settle = [active |-> DefaultPrompt, pending |-> DefaultPrompt, changed_at |-> 0,
                 last_queried |-> "", last_sent |-> ""]
    /\ senderIn = [value |-> NoPort, since |-> 0, repeated |-> FALSE, settled |-> FALSE,
                   asked |-> FALSE, first |-> 0]
    /\ receiverIn = [value |-> NoPort, since |-> 0, repeated |-> FALSE, settled |-> FALSE,
                     asked |-> FALSE, first |-> 0]
    /\ settleIn = [value |-> DefaultPrompt, since |-> 0, repeated |-> FALSE, settled |-> FALSE,
                   asked |-> FALSE, first |-> 0]

InitFor(hosts) ==
    /\ now = 0
    /\ op = Op("init", 0, "")
    /\ host \in hosts
    /\ InitClient
    /\ InitGates
    /\ InitInjector
    /\ InitChannel

Init == InitFor(Hosts)

\* The client under arbitrary callers.
Next ==
    \/ Tick(MaxTime)
    \/ \E i \in Intervals : ShouldSendCall(i)
    \/ \E cb \in Callbacks : LLMQueryAsync(cb)
    \/ \E cb \in Callbacks, frameOk \in BOOLEAN : VLMQueryAsync(cb, frameOk)
    \/ \E q \in 1..MaxQueries, text \in Responses : HttpOk(q, text)
    \/ \E q \in 1..MaxQueries : HttpFail(q)
    \/ \E q \in 1..MaxQueries : Callback(q)
    \/ \E q \in 1..MaxQueries : Finally(q)

Spec == Init /\ [][Next]_vars

\* A step of a background thread running _query.
Background ==
    \/ \E q \in 1..MaxQueries, text \in AsyncResponses : HttpOk(q, text)
    \/ \E q \in 1..MaxQueries : HttpFail(q)
    \/ \E q \in 1..MaxQueries : Callback(q)
    \/ \E q \in 1..MaxQueries : Finally(q)

\* The calls and steps that write the client's fields (should_send only reads).
NextAsync ==
    \/ Tick(MaxTime)
    \/ \E cb \in Callbacks : LLMQueryAsync(cb)
    \/ \E cb \in Callbacks, frameOk \in BOOLEAN : VLMQueryAsync(cb, frameOk)
    \/ \E q \in 1..MaxQueries, text \in AsyncResponses : HttpOk(q, text)
    \/ \E q \in 1..MaxQueries : HttpFail(q)
    \/ \E q \in 1..MaxQueries : Callback(q)
    \/ \E q \in 1..MaxQueries : Finally(q)

\* The client under arbitrary callers, every started thread running on: the POST
\* ends (the httpx client has a 60 s timeout) and the callback returns.
FairSpec == Init /\ [][NextAsync]_vars /\ WF_vars(Background)

\* The client as the pipelines call it: one frame path, which fires a query only
\* under its should_send / is_pending condition.
NextFrame ==
    \/ Tick(MaxTime)
    \/ \E i \in Intervals, udp_enabled \in BOOLEAN : LLMPipelineFire(i, udp_enabled)
    \/ \E i \in Intervals, needs_send \in BOOLEAN, frameOk \in BOOLEAN :
          VLMPipelineFire(i, needs_send, frameOk)
    \/ \E q \in 1..MaxQueries, text \in Responses : HttpOk(q, text)
    \/ \E q \in 1..MaxQueries : HttpFail(q)
    \/ \E q \in 1..MaxQueries : Callback(q)
    \/ \E q \in 1..MaxQueries : Finally(q)

SpecFrame == Init /\ [][NextFrame]_vars

\* The debounce gates under arbitrary proposals.
NextGate ==
    \/ Tick(MaxGateTime)
    \/ \E p \in Ports : SenderUpdate(p)
    \/ \E p \in Ports, bindOk \in BOOLEAN : ReceiverUpdate(p, bindOk)
    \/ \E p \in Prompts, st \in SettleTimes : SettlePromptCall(p, st)

SpecGate == Init /\ [][NextGate]_vars

\* The prompt injector under arbitrary calls.
NextInject ==
    \E bag \in Bags, text \in Texts, w \in Weights, steps \in TransitionSteps, m \in Methods :
        InjectCall(bag, text, w, steps, m)

SpecInject == InitFor(InjectorHosts) /\ [][NextInject]_vars

\* A sender and a receiver on one port, under arbitrary sends and polls.
NextChannel ==
    \/ \E m \in Messages, writeOk \in BOOLEAN : Send(m, writeOk)
    \/ Poll

SpecChannel == InitFor(ChannelHosts) /\ [][NextChannel]_vars

\* A sender and a receiver whose ports are changed while messages are sent.
NextRebind ==
    \/ Tick(MaxRebindTime)
    \/ \E p \in Ports : SenderUpdate(p)
    \/ \E p \in Ports, bindOk \in BOOLEAN : ReceiverUpdate(p, bindOk)
    \/ \E m \in RebindMessages, writeOk \in BOOLEAN : Send(m, writeOk)
    \/ Poll

SpecRebind == InitFor(ChannelHosts) /\ [][NextRebind]_vars

\* The LLM client fired by its pipeline's should_send test, with the bodies the
\* server may answer and a callback that may raise.
NextBody ==
    \/ Tick(MaxTime)
    \/ \E i \in Intervals, udp_enabled \in BOOLEAN : LLMPipelineFire(i, udp_enabled)
    \/ \E q \in 1..MaxQueries, body \in Bodies : HttpBody(q, body)
    \/ \E q \in 1..MaxQueries : HttpFail(q)
    \/ \E q \in 1..MaxQueries : Callback(q)
    \/ \E q \in 1..MaxQueries : CallbackRaises(q)
    \/ \E q \in 1..MaxQueries : Finally(q)

SpecBody == InitFor(LLMHosts) /\ [][NextBody]_vars

\* LLMOllamaPipeline alone, called once per frame with inject_prompt at its
\* default (enabled), and the threads of its queries answering with any of the
\* response texts.
NextLLM ==
    \/ Tick(MaxTime)
    \/ \E video \in Videos, i \in Intervals, udp_enabled \in BOOLEAN :
          LLMCall(video, DefaultPort, i, udp_enabled)
    \/ \E q \in 1..MaxQueries, text \in Responses : HttpOk(q, text)
    \/ \E q \in 1..MaxQueries : HttpFail(q)
    \/ \E q \in 1..MaxQueries, writeOk \in BOOLEAN : OnResponse(q, writeOk)
    \/ \E q \in 1..MaxQueries : Finally(q)

SpecLLM == InitFor(LLMHosts) /\ [][NextLLM]_vars

\* The two VLM pipelines alone, called once per frame on their default port
\* while vlm_prompt and prompt_settle_time change, and the threads of their
\* queries.
NextVLM ==
    \/ Tick(MaxTime)
    \/ \E video \in Videos \ {"frames"} : VLMCall(video, DefaultPort, DefaultPrompt, 0, 1, TRUE)
    \/ \E vp \in Prompts, st \in SettleTimes, i \in Intervals, frameOk \in BOOLEAN :
          VLMCall("frames", DefaultPort, vp, st, i, frameOk)
    \/ \E q \in 1..MaxQueries, text \in AsyncResponses : HttpOk(q, text)
    \/ \E q \in 1..MaxQueries : HttpFail(q)
    \/ \E q \in 1..MaxQueries, writeOk \in BOOLEAN : OnResponse(q, writeOk)
    \/ \E q \in 1..MaxQueries : Finally(q)

SpecVLM == InitFor(VLMHosts) /\ [][NextVLM]_vars

\* The pipelines as their host calls them once per frame, with the threads of
\* their queries and, for the receiving pipeline, a sender on the group.  The
\* prompt is changed on the standalone VLM pipeline; the preprocessor, whose
\* debounce and fire test are the same statements, is called with the default
\* vlm_prompt while its port is changed and its sender closed.
CallHosts == {"llm", "vlm", "vlm-pre", "channel"}
NextCall ==
    \/ Tick(MaxTime)
    \/ \E video \in Videos, p \in Ports, i \in Intervals, udp_enabled \in BOOLEAN :
          LLMCall(video, p, i, udp_enabled)
    \/ \E video \in Videos \ {"frames"}, p \in Ports :
          VLMCall(video, p, DefaultPrompt, 0, 1, TRUE)
    \/ \E p \in Ports, vp \in Prompts, st \in SettleTimes, i \in Intervals, frameOk \in BOOLEAN :
          /\ host = "vlm-pre" => (vp = DefaultPrompt /\ st = 0)
          /\ VLMCall("frames", p, vp, st, i, frameOk)
    \/ \E video \in Videos, p \in Ports, bindOk \in BOOLEAN : PostCall(video, p, bindOk)
    \/ \E m \in CallMessages, writeOk \in BOOLEAN : Send(m, writeOk)
    \/ SenderClose
    \/ \E q \in 1..MaxQueries, text \in AsyncResponses : HttpOk(q, text)
    \/ \E q \in 1..MaxQueries : HttpFail(q)
    \/ \E q \in 1..MaxQueries, writeOk \in BOOLEAN : OnResponse(q, writeOk)
    \/ \E q \in 1..MaxQueries : Finally(q)

SpecCall == InitFor(CallHosts) /\ [][NextCall]_vars

\* ================================================================ claims

\* Whether query_async was ever called, and its latest call.
HasQuery == Len(queries) > 0
Latest == queries[Len(queries)]

\* C1: for any interleaving of should_send and query_async calls and background
\* completions, at most one background query is outstanding at any time.
C1_SingleFlight == Cardinality(Outstanding) <= 1

\* C2: query_async invoked while the client is pending starts no new external
\* call and leaves the pending flag, the last fire time and the callback unchanged.
C2_QueryAsyncWhilePendingIsNoOp ==
    [][(pending /\ op'.name \in {"query_async", "query_async_raised"})
        => /\ Outstanding' = Outstanding
           /\ Len(queries') = Len(queries)
           /\ UNCHANGED <<pending, lastSendTime, callback>>]_vars

\* C3: should_send(interval) returns false whenever the client is pending; when it
\* is not pending it returns true iff now - (time of the last fire) >= interval.
C3_ShouldSend ==
    op.name = "should_send" =>
        op.ret = (~pending /\ (now - (IF HasQuery THEN Latest.firedAt ELSE 0)) >= op.n)

C3_Witness ==
    /\ op.name = "should_send"
    /\ op.ret
    /\ HasQuery
    /\ Latest.firedAt > 0

\* C4: for update_port of the sender and of the receiver (settle REBIND_DELAY) and
\* for _settle_prompt (settle = prompt_settle_time of the call), the committed
\* value changes to V only in a call that proposes V while V is the pending
\* proposal and at least the settle duration has passed since V first became
\* pending, and it does change in the first such call.
C4_SenderStep ==
    /\ sender'.port # sender.port =>
          /\ op'.name = "sender.update_port" /\ op'.n = sender'.port
          /\ sender.pending_port = sender'.port
          /\ senderIn.value = sender'.port
          /\ (now - senderIn.since) >= REBIND_DELAY
    /\ ( /\ op'.name = "sender.update_port"
         /\ op'.n # sender.port
         /\ senderIn.value = op'.n
         /\ (now - senderIn.since) >= REBIND_DELAY ) => sender'.port = op'.n

C4_ReceiverStep ==
    /\ receiver'.port # receiver.port =>
          /\ op'.name = "receiver.update_port" /\ op'.n = receiver'.port
          /\ receiver.pending_port = receiver'.port
          /\ receiverIn.value = receiver'.port
          /\ (now - receiverIn.since) >= REBIND_DELAY
    /\ ( /\ op'.name = "receiver.update_port"
         /\ op'.n # receiver.port
         /\ receiverIn.value = op'.n
         /\ (now - receiverIn.since) >= REBIND_DELAY ) => receiver'.port = op'.n

C4_SettleStep ==
    /\ settle'.active # settle.active =>
          /\ op'.name = "settle_prompt" /\ op'.s = settle'.active
          /\ settle.pending = settle'.active
          /\ settleIn.value = settle'.active
          /\ (now - settleIn.since) >= op'.n
    /\ ( /\ op'.name = "settle_prompt"
         /\ op'.s # settle.active
         /\ settleIn.value = op'.s
         /\ (now - settleIn.since) >= op'.n ) => settle'.active = op'.s

C4_CommitExactlyWhenSettled ==
    [][C4_SenderStep /\ C4_ReceiverStep /\ C4_SettleStep]_vars

\* In the preprocessor the sender commits the other port in the call made exactly
\* REBIND_DELAY after the port was first proposed, and the prompt gate has
\* committed the other prompt, first proposed at a time above 0.
C4_Witness ==
    /\ host = "vlm-pre"
    /\ op.name = "sender.update_port"
    /\ sender.port = op.n
    /\ sender.port # DefaultPort
    /\ senderIn.repeated
    /\ now - senderIn.since = REBIND_DELAY
    /\ settle.active # DefaultPrompt
    /\ settleIn.value = settle.active
    /\ settleIn.since > 0

\* C5: when proposals alternate so that no value stays the pending proposal for the
\* settle duration, the committed port never changes; proposing the committed
\* port clears the pending proposal, and each newly proposed distinct value
\* restarts the settle timer from the time of that call.
C5_GateStep(ch, ch2, in, name) ==
    /\ (op'.name = name /\ op'.n = ch.port) =>
          ch2.pending_port = NoPort /\ ch2.port = ch.port
    /\ (op'.name = name /\ op'.n # ch.port /\ op'.n # in.value) =>
          /\ ch2.pending_port = op'.n
          /\ ch2.port_changed_at = now
          /\ ch2.port = ch.port

C5_OscillationNeverCommits ==
    /\ [](~senderIn.settled => sender.port = DefaultPort)
    /\ [](~receiverIn.settled => receiver.port = DefaultPort)
    /\ [][C5_GateStep(sender, sender', senderIn, "sender.update_port")]_vars
    /\ [][C5_GateStep(receiver, receiver', receiverIn, "receiver.update_port")]_vars

\* The receiver, never settled, is proposed the committed port while the other
\* port has been pending since an earlier time: the pending proposal is cleared.
C5_Witness ==
    /\ op.name = "receiver.update_port"
    /\ op.n = DefaultPort
    /\ ~receiverIn.settled
    /\ receiver.port = DefaultPort
    /\ receiver.pending_port = NoPort
    /\ receiver.port_changed_at > 0
    /\ now >= REBIND_DELAY + 1

\* C6: with prompt_settle_time = 0 the active prompt returned by _settle_prompt
\* equals the new prompt already in the first call in which the new prompt
\* differs from the pending prompt.
C6_ZeroSettleCommitsOnFirstProposal ==
    [][(op'.name = "settle_prompt" /\ op'.n = 0 /\ op'.s # settle.pending)
        => settle'.active = op'.s]_vars

\* C7: get_last_response returns "" until the first successful completion, and
\* whenever is_pending is true it returns the response of a previously completed
\* query, never the response of a query that is still in flight.
C7_PendingKeepsPreviousResponse ==
    /\ respFrom = 0 => GetLastResponse = ""
    /\ IsPending => respFrom \notin Outstanding

\* C7 as amended: get_last_response returns "" until the first successful
\* completion, and it holds the response of a query only once that query's
\* external call has returned successfully; it never returns the response of a
\* query whose call is still outstanding.  (The response is stored before the
\* callback runs and before the pending flag is cleared.)
C7_NeverResponseOfOutstandingCall ==
    /\ respFrom = 0 => GetLastResponse = ""
    /\ respFrom # 0 =>
          /\ respFrom <= Len(queries)
          /\ queries[respFrom].pc \in {"callback", "finally", "done"}
    /\ \A q \in Outstanding : queries[q].pc = "post" => respFrom # q

\* While is_pending is true: a query's call is outstanding and the response read
\* is an earlier query's.
C7_Witness ==
    /\ IsPending
    /\ respFrom # 0
    /\ GetLastResponse # ""
    /\ \E q \in Outstanding : queries[q].pc = "post" /\ q > respFrom

\* C8: when the external call of a fired query fails, get_last_response returns
\* after the failure what it returned before the query was fired.
C8_FailureKeepsResponse ==
    (HasQuery /\ Latest.outcome = "fail") => GetLastResponse = Latest.prior

C8_Witness ==
    /\ HasQuery
    /\ Latest.outcome = "fail"
    /\ Latest.pc = "done"
    /\ Latest.prior # ""

\* C9: after a fired query has failed and the failure has completed,
\* should_send(interval) is true exactly when interval has elapsed since that
\* query's fire time.
C9_ShouldSendAfterFailure ==
    (HasQuery /\ Latest.pc = "done" /\ Latest.outcome = "fail") =>
        \A i \in Intervals : ShouldSend(i) = ((now - Latest.firedAt) >= i)

\* The failure completed one second after a fire at a time above 0.
C9_Witness ==
    /\ HasQuery
    /\ Latest.pc = "done"
    /\ Latest.outcome = "fail"
    /\ Latest.firedAt > 0
    /\ now = Latest.firedAt + 1
    /\ ShouldSend(1)
    /\ ~ShouldSend(2)

\* C10: every query whose external call is outstanding is eventually followed by
\* the client being not pending, whether the call succeeds or fails, and only the
\* end of a background thread (the finally clause of _query) clears the flag.
C10_PendingClearsOnCompletion ==
    /\ (\E q \in 1..Len(queries) : queries[q].pc = "post") ~> ~pending
    /\ [][(pending /\ ~pending') =>
            \E q \in 1..Len(queries) :
                queries[q].pc = "finally" /\ queries'[q].pc = "done"]_vars

C10_Witness ==
    /\ ~pending
    /\ HasQuery
    /\ Latest.pc = "done"
    /\ Latest.outcome = "fail"

\* C11: when a query fired with a callback completes, successfully or with a
\* failure, the callback is invoked once with the response text, on the
\* background thread and never on the thread that called query_async.
C11_CallbackOnEveryCompletion ==
    (HasQuery /\ Latest.pc = "done" /\ callback # "none") => Latest.notified

\* C11 as amended: the callback is invoked only by a background thread whose
\* external call succeeded, once, with the text that call returned, never by a
\* query_async call; the thread of the latest query, once its call has succeeded
\* and it is past the callback, has invoked the callback exactly when that query
\* was fired with one; a thread whose call failed invokes no callback.
C11_CallbackStep ==
    /\ (\E q \in 1..Len(queries) : ~queries[q].notified /\ queries'[q].notified)
          => op'.name = "callback"
    /\ op'.name = "callback" =>
          \E q \in 1..Len(queries) :
              /\ queries[q].pc = "callback" /\ queries'[q].pc = "finally"
              /\ queries[q].outcome = "ok"
              /\ ~queries[q].notified /\ queries'[q].notified
              /\ op'.s = queries[q].result
              /\ callback # "none"
              /\ \A r \in 1..Len(queries) : r # q => queries'[r] = queries[r]

C11_CallbackOnSuccessOnly ==
    /\ [][C11_CallbackStep]_vars
    /\ [](\A q \in 1..Len(queries) : queries[q].outcome = "fail" => ~queries[q].notified)
    /\ []((HasQuery /\ Latest.outcome = "ok" /\ Latest.pc \in {"finally", "done"})
            => Latest.notified = (callback # "none"))

\* The callback of the earlier of two overlapping queries is given that query's
\* own text after the later query's response was stored.
C11_Witness ==
    /\ op.name = "callback"
    /\ op.s # ""
    /\ op.s # lastResponse
    /\ \E q \in 1..Len(queries) : queries[q].notified /\ queries[q].pc = "finally"

\* The last inject_if_new call changed its output dict; its text was non-empty and
\* not the last injected text; the entry it builds.
Mutated == output # inj.bag
Injecting == inj.call >= 1 /\ inj.text # "" /\ inj.text # inj.before
PromptEntry == [text |-> inj.text, weight |-> inj.weight]
SameTextAgain == inj.call >= 2 /\ inj.text # "" /\ inj.text = injPrev.text
OtherTextNext == inj.call >= 2 /\ inj.text # "" /\ injPrev.text # "" /\ inj.text # injPrev.text

\* C12: for any ledger state, two consecutive inject_if_new calls with the same
\* non-empty text mutate the output exactly once (only the first call mutates its
\* output bag); a following call with a different non-empty text mutates again.
C12_SameTextTwiceMutatesOnce ==
    /\ SameTextAgain => (injPrev.mutated /\ ~Mutated)
    /\ OtherTextNext => Mutated

\* C12 as amended: of two consecutive calls with the same non-empty text the
\* second never mutates its output bag and the first mutates its bag exactly when
\* the ledger did not already hold that text; a following call with a different
\* non-empty text mutates again.
C12_SecondCallNeverMutates ==
    /\ SameTextAgain => (~Mutated /\ (injPrev.mutated <=> injPrev.text # injPrev.before))
    /\ OtherTextNext => Mutated

\* From a ledger that holds another text: the first of two calls with the same
\* text appended to a bag with upstream prompts, the second left its bag alone.
C12_Witness ==
    /\ SameTextAgain
    /\ injPrev.before # ""
    /\ injPrev.mutated
    /\ ~Mutated
    /\ Len(Get(inj.bag, "prompts", <<>>)) > 0

\* C13: inject_if_new called with empty text, or with text equal to the last
\* injected text, changes neither the output bag (prompts, transition, any other
\* key) nor the ledger's last-injected text.
C13_NoOpLeavesBagAndLedger ==
    (inj.call >= 1 /\ (inj.text = "" \/ inj.text = inj.before)) =>
        (output = inj.bag /\ lastInjected = inj.before)

\* An empty text on a ledger that holds a text, the bag carrying upstream prompts
\* and a transition, the call asking for a transition.
C13_Witness ==
    /\ inj.call >= 2
    /\ inj.text = ""
    /\ inj.before # ""
    /\ inj.steps > 0
    /\ "prompts" \in DOMAIN inj.bag
    /\ "transition" \in DOMAIN inj.bag
    /\ lastInjected = inj.before

\* C14: over any sequence of inject_if_new calls on one PromptInjector, each
\* distinct text value causes at most one injection (prompt or transition), and
\* consecutive identical text values produce no output.
C14_OneInjectionPerDistinctText ==
    /\ \A i, j \in 1..Len(injected) : injected[i] = injected[j] => i = j
    /\ SameTextAgain => ~Mutated

\* C14 as amended: no two successive injections carry the same text value (a text
\* is injected again only after another text was injected in between), and
\* consecutive identical text values produce no output.
C14_NoRepeatedSuccessiveInjection ==
    /\ \A i \in 1..(Len(injected) - 1) : injected[i] # injected[i + 1]
    /\ SameTextAgain => ~Mutated

\* A, B, A were injected, the second A as a transition.
C14_Witness ==
    /\ Len(injected) = 3
    /\ injected[1] = injected[3]
    /\ Mutated
    /\ inj.steps > 0

\* C15: an injecting inject_if_new call with transition_steps > 0 sets
\* output['transition'] with target_prompts equal to exactly [{text, weight}] and
\* num_steps = transition_steps (replacing any earlier transition on the bag) and
\* appends no prompt entry; an injecting call with transition_steps = 0 appends one
\* prompt entry and neither sets nor changes a transition.
C15_TransitionOrPrompt ==
    /\ (Injecting /\ inj.steps > 0) =>
          /\ "transition" \in DOMAIN output
          /\ output["transition"].target_prompts = <<PromptEntry>>
          /\ output["transition"].num_steps = inj.steps
          /\ Len(Get(output, "prompts", <<>>)) = Len(Get(inj.bag, "prompts", <<>>))
    /\ (Injecting /\ inj.steps = 0) =>
          /\ Len(Get(output, "prompts", <<>>)) = Len(Get(inj.bag, "prompts", <<>>)) + 1
          /\ ("transition" \in DOMAIN output) = ("transition" \in DOMAIN inj.bag)
          /\ Get(output, "transition", "absent") = Get(inj.bag, "transition", "absent")

\* A transition replaces the upstream transition of a bag that carries prompts.
C15_Witness ==
    /\ Injecting
    /\ inj.steps > 0
    /\ "transition" \in DOMAIN inj.bag
    /\ "prompts" \in DOMAIN inj.bag
    /\ output["transition"] # inj.bag["transition"]
    /\ inj.before # ""

\* C16: prompts already present on the output bag are never overwritten or
\* reordered: after an injecting call with transition_steps = 0, output['prompts']
\* equals the previously present prompts in their original order followed by the
\* new {text, weight} entry; after an injecting call with transition_steps > 0 the
\* previously present prompts are unchanged.
C16_PromptsAppendOnly ==
    /\ (Injecting /\ inj.steps = 0) =>
          /\ "prompts" \in DOMAIN output
          /\ output["prompts"] = Get(inj.bag, "prompts", <<>>) \o <<PromptEntry>>
    /\ (Injecting /\ inj.steps > 0) =>
          /\ ("prompts" \in DOMAIN output) = ("prompts" \in DOMAIN inj.bag)
          /\ Get(output, "prompts", <<>>) = Get(inj.bag, "prompts", <<>>)

\* The entry is appended after two upstream prompts.
C16_Witness ==
    /\ Injecting
    /\ inj.steps = 0
    /\ Len(Get(inj.bag, "prompts", <<>>)) = 2
    /\ Len(output["prompts"]) = 3
    /\ output["prompts"][3] = PromptEntry

\* The last poll returned (it did not raise), and the last datagram it drained.
Polled == op.name = "poll" /\ op.s = "returned"
LastDrained == drained[Len(drained)]

\* C17: if messages M1 and then M2 are both queued on the receiver's socket before
\* a poll, that poll returns M2 and discards M1; an immediately following poll
\* with no newly arrived message returns none.
C17_PollReturnsLatest ==
    /\ []((Polled /\ Len(drained) >= 2) =>
            (polled = Decode(LastDrained.payload) /\ net = <<>>))
    /\ [][(Polled /\ op'.name = "poll") => (polled' = NoMessage /\ drained' = <<>>)]_vars

\* Two different messages were queued; the poll returned the second, the dict of
\* the VLM preprocessor.
C17_Witness ==
    /\ Polled
    /\ Len(drained) = 2
    /\ drained[1].msg # drained[2].msg
    /\ drained[2].msg = VLMMessage
    /\ polled = VLMMessage

\* C18: round trip through the channel: for every dict message m, send(m) followed
\* by poll on a receiver bound to the same port returns an object equal to m; for
\* every string message, poll returns the decoded JSON value when the text parses
\* as JSON and the raw text unchanged otherwise.  (The datagram of send(m) is the
\* last one the poll finds.)
C18_RoundTrip ==
    (Polled /\ drained # <<>>) =>
        LET m == LastDrained.msg
        IN /\ m.t = "dict" => polled = m
           /\ m.t = "str" => polled = (IF Loads(m.v).ok THEN Loads(m.v).val ELSE m)
           /\ m = Str("42") => polled = Num(42)
           /\ m = Str("{\"prompt\": \"B\"}") => polled = Dict(<< <<"prompt", Str("B")>> >>)
           /\ m \in {Str("hello"), Str(""), Str("a \"red\" door")} => polled = m

\* The dict with a quoted word in a value came back equal, after a string message
\* was discarded.
C18_Witness ==
    /\ Polled
    /\ Len(drained) = 2
    /\ drained[1].msg.t = "str"
    /\ LastDrained.msg = VLMMessage
    /\ LastDrained.payload # ""
    /\ polled = VLMMessage
    /\ polled.v[2][2] = Str("a \"red\" door")

\* C19: after update_port(9401) is first requested on a sender and a receiver at
\* port 9400, each keeps port 9400 until an update_port(9401) call made at least
\* 3 s after the first request; once the receiver has rebound to 9401, no poll
\* returns a message that was sent to 9400, including messages still queued on the
\* old socket at the moment of the rebind.
C19_SenderStep ==
    (sender.port = DefaultPort /\ sender'.port # DefaultPort) =>
        /\ op'.name = "sender.update_port" /\ op'.n = sender'.port
        /\ senderIn.asked
        /\ (now - senderIn.first) >= REBIND_DELAY

C19_ReceiverStep ==
    (receiver.port = DefaultPort /\ receiver'.port # DefaultPort) =>
        /\ op'.name = "receiver.update_port" /\ op'.n = receiver'.port
        /\ receiverIn.asked
        /\ (now - receiverIn.first) >= REBIND_DELAY

C19_RebindLeavesOldPort ==
    /\ [][C19_SenderStep /\ C19_ReceiverStep]_vars
    /\ [](~senderIn.asked => sender.port = DefaultPort)
    /\ [](~receiverIn.asked => receiver.port = DefaultPort)
    /\ []((Polled /\ polled # NoMessage /\ receiver.port # DefaultPort) =>
            LastDrained.port = receiver.port)
    /\ [](receiver.port # DefaultPort => \A i \in 1..Len(net) : net[i].port = receiver.port)
    /\ [][(receiver.port = DefaultPort /\ receiver'.port # DefaultPort) => net' = <<>>]_vars

\* Sender and receiver have moved to the other port, the receiver REBIND_DELAY
\* after it was first asked to, and a poll returned a message.
C19_Witness ==
    /\ Polled
    /\ polled # NoMessage
    /\ receiver.port # DefaultPort
    /\ receiver.sock = receiver.port
    /\ sender.port = receiver.port
    /\ LastDrained.port = receiver.port
    /\ now = receiverIn.first + REBIND_DELAY

\* C20: UDPSender.send never raises to its caller when the socket write fails: the
\* failure is logged, the call returns normally, and the sender's committed port
\* and pending port are unchanged.
C20_SendNeverRaises ==
    [][op'.name = "send" =>
          /\ op'.s \in {"sent", "logged"}
          /\ sender' = sender
          /\ op'.s = "logged" => net' = net]_vars

\* A failed write while a port change is pending.
C20_Witness ==
    /\ op.name = "send"
    /\ op.s = "logged"
    /\ sender.pending_port # NoPort
    /\ sender.port = DefaultPort
    /\ now > 0

\* ------------------------------------------------------------------- C21
\* C21: when the receiver commits a port change and binding the new port fails,
\* the failure is not raised out of update_port; the caller keeps running.
\* In the code the OSError of _bind leaves update_port (no try around it).
C21_BindFailureNotRaised ==
    op.name = "receiver.update_port" => op.s # "raised"

\* ------------------------------------------------------------------- C22
\* C22: a receiver whose rebind failed has no bound socket, and every poll
\* after it returns none without raising.  In the code self._sock is still the
\* socket that update_port closed, and recvfrom on it raises OSError, which
\* poll (except BlockingIOError only) lets through.
C22_PollAfterFailedRebindReturnsNone ==
    (op.name = "poll" /\ receiver.sock = NoPort) => (op.s = "returned" /\ polled = NoMessage)

\* C22, second half: a later update_port call for the port whose bind failed
\* binds again.  In the code _port already is that port, so the call clears
\* _pending_port and returns at its first test.
C22_LaterUpdatePortRetriesBind ==
    [][(receiver.sock = NoPort /\ op'.name = "receiver.update_port" /\ op'.n = receiver.port)
       => (receiver'.sock # NoPort \/ op'.s = "raised")]_vars

\* ------------------------------------------------------------------- C23
CallNames == {"llm.call", "vlm.call", "post.call"}

\* C23: a pipeline call without the video input raises to its caller before any
\* port update, query fire, poll or injection: the sender, the receiver and its
\* socket queue, the query client, the prompt debounce and the injector's ledger
\* and output are what they were before the call.
C23_NoVideoChangesNothing ==
    [][(op'.name \in CallNames /\ op'.video = "none")
       => (op'.s = "no_video" /\ UNCHANGED <<clientVars, gateVars, injectVars, chanVars>>)]_vars

\* The postprocessor was called without video and with another port than its
\* own while a datagram was queued: nothing became pending, nothing was polled.
C23_Witness ==
    /\ op.name = "post.call" /\ op.video = "none" /\ op.s = "no_video"
    /\ op.n # receiver.port
    /\ receiver.pending_port = NoPort
    /\ net # <<>>

\* ------------------------------------------------------------------- C24
\* The call reached its fire test (it did not end at the entry test or in
\* normalize_input), and it called query_async.
ReachedFireTest(o) == o.s \in {"returned", "query_async_raised"}
Fired == Len(queries') = Len(queries) + 1

\* C24: a call of a VLM pipeline fires a query if and only if the client is not
\* pending and the debounced active prompt differs from the last queried prompt
\* or send_interval has elapsed since the last fire; no query is fired while one
\* is in flight; after a fire the last queried prompt is the active prompt.
C24_VLMFiresOnChangeOrInterval ==
    [][(op'.name = "vlm.call" /\ ReachedFireTest(op'))
       => /\ Fired <=> /\ ~pending
                       /\ \/ settle'.active # settle.last_queried
                          \/ (now - lastSendTime) >= op'.n
          /\ Fired => Outstanding = {}
          /\ Fired => settle'.last_queried = settle'.active]_vars

\* A second query was fired for the prompt "B" before the interval of 2 could
\* have elapsed since the first one.
C24_Witness ==
    /\ op.name = "vlm.call" /\ op.s = "returned" /\ op.n = 2
    /\ Len(queries) = 2 /\ Latest.pc = "post"
    /\ now <= 1 /\ lastSendTime = now
    /\ settle.active = "B" /\ settle.last_queried = "B"

\* ------------------------------------------------------------------- C25
\* C25: in LLMOllamaPipeline any two consecutive query fires are separated by at
\* least the send_interval of the call that makes the second fire, whatever the
\* frame ticks and the completion times are.  (_last_send_time is the time of
\* the fire before.)
C25_LLMFiresAtBoundedRate ==
    [][(op'.name = "llm.call" /\ Fired /\ HasQuery) => (now - lastSendTime) >= op'.n]_vars

\* A second query was fired, at least one interval after the first one.
C25_Witness ==
    /\ op.name = "llm.call" /\ op.s = "returned"
    /\ Len(queries) = 2 /\ Latest.pc = "post" /\ Latest.firedAt = now
    /\ lastSendTime = now /\ now >= op.n

\* ------------------------------------------------------------------- C26
\* C26: every read and write of the client's pending flag, last response and
\* last fire time, by the frame path or by the background thread, is made while
\* holding the client's lock.  In the code only _last_response is accessed under
\* the lock.
C26_EveryAccessUnderLock ==
    \A a \in Accesses(op.name) : a.locked

\* C26, the part that holds: the last response is read and written under the lock.
C26_LastResponseUnderLock ==
    \A a \in Accesses(op.name) : a.field = "last_response" => a.locked

\* ------------------------------------------------------------------- C27
\* C27: no send or poll observes a half-updated channel; in particular each poll
\* reads a socket that is bound to the port the receiver's port property reports.
\* In the code a commit whose bind failed leaves _port at the new port and _sock
\* at the closed socket of the old one, and that is what the next poll reads.
C27_PollReadsSocketOfReportedPort ==
    op.name = "poll" => receiver.sock = receiver.port

\* ------------------------------------------------------------------- C28
\* C28: when the sender's socket was closed while a query was in flight, the
\* send of the completion callback is a logged no-op: it ends in send's own
\* except clause, the thread goes on to its finally clause with the response of
\* its successful POST stored in the client, and the finally clause clears the
\* pending flag.
C28_ClosedSenderCallbackIsLoggedNoOp ==
    [][/\ (sender.closed /\ op'.name = "on_response")
          => /\ op'.s = "logged"
             /\ \E q \in 1..Len(queries) :
                   /\ queries[q].pc = "callback" /\ queries'[q].pc = "finally"
                   /\ queries[q].outcome = "ok"
                   /\ lastResponse' = queries[q].result
             /\ UNCHANGED <<sender, net>>
       /\ (op.name = "on_response" /\ op'.name = "finally") => ~pending']_vars

\* The callback of a successful query ran on a closed sender.
C28_Witness ==
    /\ op.name = "on_response" /\ op.s = "logged"
    /\ sender.closed
    /\ lastResponse = "r1" /\ respFrom = Len(queries)
    /\ Latest.pc = "finally" /\ Latest.notified

\* ------------------------------------------------------------------- C29
\* C29: in every reachable state of a UDPSender or UDPReceiver the pending port
\* is absent or different from the committed port.  In the code a receiver commit
\* whose bind failed has set _port and has not reached `_pending_port = None`.
C29_PendingAbsentOrDifferent ==
    /\ sender.pending_port = NoPort \/ sender.pending_port # sender.port
    /\ receiver.pending_port = NoPort \/ receiver.pending_port # receiver.port

\* C29, the sender alone: its pending port is absent or differs from its port.
C29_SenderPendingAbsentOrDifferent ==
    sender.pending_port = NoPort \/ sender.pending_port # sender.port

\* ------------------------------------------------------------------- C30
\* C30: whenever a UDPReceiver.update_port call has returned or raised, the
\* receiver's socket is open and bound on exactly the port that the port property
\* reports.  In the code a raising call leaves the socket closed and _port moved.
C30_SocketBoundToReportedPort ==
    op.name = "receiver.update_port" => receiver.sock = receiver.port

\* ------------------------------------------------------------------- C31
\* The body is not JSON, or is JSON without the "response" field.
Malformed(body) ==
    LET r == Loads(body)
    IN ~r.ok \/ r.val.t # "dict" \/ ItemsGet(r.val.v, "response", NoMessage) = NoMessage

\* A thread went from its POST to its finally clause without a callback call.
FailedCall == \E q \in 1..Len(queries) :
    queries[q].pc = "post" /\ queries'[q].pc = "finally" /\ ~queries'[q].notified

\* C31: a success status with malformed content (not JSON, or JSON without the
\* text field) is a failed call: the stored response is unchanged and the
\* callback gets no text for it.  In the code a JSON object without the field
\* yields "" from .get("response", ""), which is stored and handed to the callback.
C31_MalformedBodyIsFailure ==
    [][(op'.name = "http_body" /\ Malformed(op'.s))
       => (lastResponse' = lastResponse /\ FailedCall)]_vars

\* C31, the part that holds: a body that is not a JSON object is a failed call.
C31_NotAnObjectIsFailure ==
    [][(op'.name = "http_body" /\ (~Loads(op'.s).ok \/ Loads(op'.s).val.t # "dict"))
       => (lastResponse' = lastResponse /\ FailedCall)]_vars

\* ------------------------------------------------------------------- C32
\* A pipeline call that reached self._udp.update_port on its sender.
SenderUpdated(o) ==
    \/ o.name = "llm.call" /\ o.s = "returned"
    \/ o.name = "vlm.call" /\ host = "vlm-pre" /\ o.s # "no_video"

\* C32: UDPSender.update_port never closes, replaces or rebinds the sender's
\* socket, whether or not the call commits: an open socket stays open, a closed
\* one stays closed, and nothing else of the channel changes.
C32_SenderUpdateKeepsSocket ==
    [][SenderUpdated(op') => (sender'.closed = sender.closed /\ UNCHANGED <<receiver, net>>)]_vars

\* The port was changed on a sender whose socket is closed.
C32_Witness ==
    /\ SenderUpdated(op)
    /\ sender.closed
    /\ sender.port # DefaultPort /\ sender.pending_port = NoPort

\* ------------------------------------------------------------------- C34
\* A thread is at its callback: the result is stored, the callback has not
\* returned.
AtCallback == \E q \in 1..Len(queries) : queries[q].pc = "callback"

\* C34: a client stays pending until its completion callback has returned: the
\* flag is cleared by the finally clause only, which comes after the callback,
\* and no pipeline call fires a query while a thread is at its callback.
C34_PendingUntilCallbackReturned ==
    [][/\ AtCallback' => pending'
       /\ (pending /\ ~pending') => (op'.name = "finally" /\ ~AtCallback)
       /\ AtCallback => ~Fired]_vars

\* The interval had elapsed and a call came while the thread was at its
\* callback: no query was fired.
C34_Witness ==
    /\ AtCallback /\ pending
    /\ op.name = "llm.call" /\ op.s = "returned"
    /\ (now - lastSendTime) >= op.n
    /\ Len(queries) = 1

\* ------------------------------------------------------------------- C36
\* The stored response awaits injection: it is not empty and differs from the
\* last injected text.
Due == GetLastResponse # "" /\ GetLastResponse # lastInjected

C33_MessagePairsResponseWithItsPrompt ==
    [][(op'.name = "on_response" /\ host = "vlm-pre") =>
          \E q \in 1..Len(queries) :
              /\ queries[q].pc = "callback" /\ queries'[q].pc = "finally"
              /\ op'.msg = Dict(<< <<"prompt", Str(queries[q].prompt)>>,
                                   <<"response", Str(queries[q].result)>> >>)]_vars

\* A response to a query about "A" was sent after "B" had become the active
\* prompt.
C33_Witness ==
    /\ op.name = "on_response" /\ host = "vlm-pre" /\ op.s = "sent"
    /\ op.msg = Dict(<< <<"prompt", Str("A")>>, <<"response", Str("r1")>> >>)
    /\ settle.active = "B"

\* ------------------------------------------------------------------- C37
\* C37: in the VLM pipelines a fire records the prompt it queries, whatever
\* becomes of the query, so a fire before send_interval has elapsed happens only
\* for an active prompt that differs from the last queried one; after a failed
\* query with the prompt unchanged the next fire comes no sooner than
\* send_interval after the failed fire.
C37_OneOffIntervalFirePerChange ==
    [][(op'.name = "vlm.call" /\ Fired) =>
          /\ settle'.last_queried = settle'.active
          /\ (now - lastSendTime) < op'.n => settle'.active # settle.last_queried
          /\ (HasQuery /\ Latest.outcome = "fail" /\ settle'.active = settle.last_queried)
                => (now - lastSendTime) >= op'.n]_vars

\* The query fired for the new prompt "B" failed; a call before the interval
\* elapsed fired nothing.
C37_Witness ==
    /\ op.name = "vlm.call" /\ op.s = "returned"
    /\ HasQuery /\ Latest.outcome = "fail" /\ Latest.pc = "done" /\ ~pending
    /\ Latest.prompt = "B" /\ settle.active = "B" /\ settle.last_queried = "B"
    /\ (now - lastSendTime) < op.n

\* ------------------------------------------------------------------- C35
\* C35: when the completion callback raises, the exception stays in the thread
\* (the thread goes on to its finally clause), the client has the new response
\* stored, and the finally clause returns it to not-pending: once no thread is
\* left the client is not pending.
C35_RaisingCallbackIsContained ==
    [][/\ op'.name = "callback_raised"
          => \E q \in 1..Len(queries) :
                /\ queries[q].pc = "callback" /\ queries'[q].pc = "finally"
                /\ queries[q].outcome = "ok"
                /\ lastResponse' = queries[q].result /\ op'.s = queries[q].result
       /\ (op.name = "callback_raised" /\ op'.name = "finally") => ~pending'
       /\ Outstanding = {} => ~pending]_vars

\* The callback was handed "r1" and raised; "r1" is what get_last_response returns.
C35_Witness ==
    /\ op.name = "callback_raised" /\ op.s = "r1"
    /\ lastResponse = "r1" /\ GetLastResponse = "r1"
    /\ Latest.pc = "finally" /\ pending

\* ------------------------------------------------------------------- C38
\* C38: poll returns a message that is not none whenever at least one datagram
\* was queued on the socket when it was called, and none only when the queue was
\* empty, for every payload.  In the code the text null is decoded by json.loads
\* to None, which poll returns like an empty queue.
C38_NoneOnlyWhenQueueEmpty ==
    Polled => (polled = NoMessage <=> drained = <<>>)

\* ------------------------------------------------------------------- C39
\* C39: a client that has never fired treats its last fire time as 0: on a
\* fresh client should_send(interval) is true exactly when the clock reading is
\* at least interval, so below interval the first query is not fired at once.
C39_FreshClientWaitsForInterval ==
    (op.name = "should_send" /\ ~HasQuery) => (~pending /\ op.ret = (now >= op.n))

\* should_send(2) on a fresh client at clock reading 1 said no.
C39_Witness ==
    /\ op.name = "should_send" /\ ~HasQuery
    /\ now > 0 /\ now < op.n
    /\ ~op.ret

\* ------------------------------------------------------------------- C40
\* C40: the ledger's key is the text alone and an empty text does not reset it:
\* once a text is in the ledger, a call whose text is empty or that text injects
\* nothing and leaves the ledger, whatever its weight, transition_steps and
\* interpolation_method are; so does every sequence of such calls.  The ledger
\* holds the text of the last injection.
C40_LedgerKeyIsTextAlone ==
    [][/\ (lastInjected # "" /\ inj'.text \in {"", lastInjected})
          => (output' = inj'.bag /\ injected' = injected /\ lastInjected' = lastInjected)
       /\ injected' # <<>> => lastInjected' = injected'[Len(injected')]]_vars

\* After "A" was injected: an empty text, then "A" again with another weight, a
\* transition and another method; nothing was injected by either.
C40_Witness ==
    /\ inj.call >= 3 /\ injected = <<"A">>
    /\ injPrev.text = "" /\ injPrev.before = "A" /\ ~injPrev.mutated
    /\ inj.text = "A" /\ inj.before = "A"
    /\ inj.weight = 50 /\ inj.steps = 2 /\ inj.method = "linear"
    /\ ~Mutated /\ lastInjected = "A"

====
